---- MODULE Spec2Model ----
(***************************************************************************)
(* The project-files processing job of cpmai: the queue-triggered handler  *)
(* (lambda_function.lambda_handler with business_logic.process_files, and  *)
(* LambdaController.handle_event with ProjectFileService.process_files),   *)
(* the AI adapters, and the two MongoDB collections they read and write.   *)
(***************************************************************************)
EXTENDS Integers, Sequences, FiniteSets, TLC

\* Python's None, and a dictionary key that is absent (dict.get gives None).
None == "None"

\* The longest file list of a stored file_info document.
MaxFiles == 2

Projects == {"p1", "p2"}

(***************************************************************************)
(* Documents of the store                                                  *)
(***************************************************************************)

\* What the AI backend sends back: a text that parses to a non-empty object,
\* or a text json_repair cannot turn into JSON; "error" is a raised exception.
Replies == {"json", "garbage"}
BackendOutcomes == Replies \cup {"error"}

\* UploadedFile.analysis_result: None, the value parsed from a reply, or the
\* {"file_name", "document_category", "analysis": <reply text>} dictionary.
NoAnalysis == [kind |-> "none", text |-> "-"]
Parsed(r) == [kind |-> "parsed", text |-> r]
RawReply(r) == [kind |-> "raw", text |-> r]

\* One entry of file_info.files. s3_key names the object in storage; pdf says
\* whether file_name ends in ".pdf" (case-insensitive); file_description and
\* document_category have the defaults of upload_file.
UploadedFile(k, isPdf) ==
    [s3_key |-> k, pdf |-> isPdf, analysis_result |-> NoAnalysis, embeddings |-> None,
     file_description |-> "", document_category |-> "other"]

\* A file_info document of a project. exists = FALSE: no document. full says
\* whether the entries of files carry the keys _id, revision_id and embeddings
\* that the job's UploadedFile constructor requires; the web application's
\* UploadedFile model has only file_name, s3_key, file_description and
\* document_category.
NoDoc == [exists |-> FALSE, full |-> TRUE, files |-> <<>>]
FileInfoDoc(isFull, fs) == [exists |-> TRUE, full |-> isFull, files |-> fs]

\* File lists of length n: entry j has s3_key j.
FileLists(n) == {[j \in 1..n |-> UploadedFile(j, pdfs[j])] : pdfs \in [1..n -> BOOLEAN]}

\* The documents a project's file_info may start with.
InitDocs ==
    {NoDoc, FileInfoDoc(TRUE, <<>>)}
        \cup {FileInfoDoc(isFull, fs) : isFull \in BOOLEAN,
                                        fs \in UNION {FileLists(n) : n \in 1..MaxFiles}}

\* The documents the second project starts with: none, or one unprocessed PDF.
OtherDocs == {NoDoc, FileInfoDoc(TRUE, <<UploadedFile(1, TRUE)>>)}

\* Project.status; "absent": the projects collection has no record.
Statuses == {"absent", "created", "in_progress", "completed", "failed"}

(***************************************************************************)
(* Reply texts: Python strings as sequences of characters                  *)
(***************************************************************************)

\* The backtick character.
Backtick == "backtick"

\* The literals of the fence test: three backticks and json, three backticks.
FenceOpen == <<Backtick, Backtick, Backtick, "j", "s", "o", "n">>
FenceClose == <<Backtick, Backtick, Backtick>>

\* The characters str.strip() removes (those that occur in the texts here).
IsSpace(c) == c \in {" ", "\n"}

RECURSIVE LStrip(_)
LStrip(t) == IF t # <<>> /\ IsSpace(Head(t)) THEN LStrip(Tail(t)) ELSE t

RECURSIVE RStrip(_)
RStrip(t) ==
    IF t # <<>> /\ IsSpace(t[Len(t)]) THEN RStrip(SubSeq(t, 1, Len(t) - 1)) ELSE t

\* str.strip()
Strip(t) == RStrip(LStrip(t))

\* str.startswith(p), str.endswith(p)
StartsWith(t, p) == Len(t) >= Len(p) /\ SubSeq(t, 1, Len(p)) = p
EndsWith(t, p) == Len(t) >= Len(p) /\ SubSeq(t, Len(t) - Len(p) + 1, Len(t)) = p

\* The positions at which sep occurs in t.
Occurrences(t, sep) ==
    {k \in 1..(Len(t) - Len(sep) + 1) : SubSeq(t, k, k + Len(sep) - 1) = sep}

\* t.split(sep, 1)[0]: what precedes the first occurrence of sep.
SplitHead(t, sep) ==
    LET at == Occurrences(t, sep)
    IN IF at = {} THEN t
       ELSE SubSeq(t, 1, (CHOOSE k \in at : \A n \in at : k <= n) - 1)

\* t.rsplit(sep, 1)[0]: what precedes the last occurrence of sep; t when sep
\* does not occur.
RSplitHead(t, sep) ==
    LET at == Occurrences(t, sep)
    IN IF at = {} THEN t
       ELSE SubSeq(t, 1, (CHOOSE k \in at : \A n \in at : n <= k) - 1)

\* The fence strip with the test on the opening fence alone.
StripFencesOpenOnly(text) ==
    LET s == Strip(text)
    IN IF StartsWith(s, FenceOpen)
       THEN Strip(RSplitHead(SubSeq(s, Len(FenceOpen) + 1, Len(s)), FenceClose))
       ELSE s

\* json_string_to_parse of _parse_gemini_response and send_to_gemini: the
\* stripped text, without the leading fence and without the last closing
\* fence and what follows it, when it starts with the one and ends with the
\* other.
StripFences(text) ==
    LET s == Strip(text)
    IN IF StartsWith(s, FenceOpen) /\ EndsWith(s, FenceClose)
       THEN Strip(RSplitHead(SubSeq(s, Len(FenceOpen) + 1, Len(s)), FenceClose))
       ELSE s

\* The values orjson.loads builds: a str, an int, a list, a dict (its members
\* in the order of the text), and Python's None for "no value".
JNone == [kind |-> "none", body |-> <<>>]
JStr(cs) == [kind |-> "str", body |-> cs]
JNum(d) == [kind |-> "num", body |-> <<d>>]
JList(items) == [kind |-> "list", body |-> items]
JDict(members) == [kind |-> "dict", body |-> members]

Digits == {"0", "1"}
Quote == "\""

\* A parse step: ok, the value read, the text that follows it.
Fail == [ok |-> FALSE, val |-> JNone, rest |-> <<>>]
Read(v, t) == [ok |-> TRUE, val |-> v, rest |-> t]

\* A string, after its opening quote (the texts here have no escapes).
ParseString(t) ==
    LET q == Occurrences(t, <<Quote>>)
    IN IF q = {} THEN Fail
       ELSE LET k == CHOOSE n \in q : \A o \in q : n <= o
            IN Read(JStr(SubSeq(t, 1, k - 1)), SubSeq(t, k + 1, Len(t)))

RECURSIVE ParseValue(_), ParseItems(_, _), ParseMembers(_, _)

\* One JSON value at the head of the text.
ParseValue(t0) ==
    LET t == LStrip(t0)
    IN IF t = <<>> THEN Fail
       ELSE IF Head(t) = Quote THEN ParseString(Tail(t))
       ELSE IF Head(t) \in Digits THEN Read(JNum(Head(t)), Tail(t))
       ELSE IF Head(t) = "["
            THEN LET u == LStrip(Tail(t))
                 IN IF u # <<>> /\ Head(u) = "]" THEN Read(JList(<<>>), Tail(u))
                    ELSE ParseItems(u, <<>>)
       ELSE IF Head(t) = "{"
            THEN LET u == LStrip(Tail(t))
                 IN IF u # <<>> /\ Head(u) = "}" THEN Read(JDict(<<>>), Tail(u))
                    ELSE ParseMembers(u, <<>>)
       ELSE Fail

\* The items of a list, after "[" or ",".
ParseItems(t, acc) ==
    LET r == ParseValue(t)
        u == LStrip(r.rest)
    IN IF ~r.ok \/ u = <<>> THEN Fail
       ELSE IF Head(u) = "," THEN ParseItems(Tail(u), Append(acc, r.val))
       ELSE IF Head(u) = "]" THEN Read(JList(Append(acc, r.val)), Tail(u))
       ELSE Fail

\* The members of a dict, after "{" or ",".
ParseMembers(t0, acc) ==
    LET t == LStrip(t0)
        k == IF t # <<>> /\ Head(t) = Quote THEN ParseString(Tail(t)) ELSE Fail
        c == LStrip(k.rest)
        v == IF k.ok /\ c # <<>> /\ Head(c) = ":" THEN ParseValue(Tail(c)) ELSE Fail
        u == LStrip(v.rest)
    IN IF ~v.ok \/ u = <<>> THEN Fail
       ELSE IF Head(u) = "," THEN ParseMembers(Tail(u), Append(acc, <<k.val, v.val>>))
       ELSE IF Head(u) = "}" THEN Read(JDict(Append(acc, <<k.val, v.val>>)), Tail(u))
       ELSE Fail

\* orjson.loads and json.loads: ok = FALSE is JSONDecodeError.
Loads(t) ==
    LET r == ParseValue(t)
    IN IF r.ok /\ LStrip(r.rest) = <<>> THEN [ok |-> TRUE, val |-> r.val]
       ELSE [ok |-> FALSE, val |-> JNone]

RECURSIVE Dumps(_), DumpsItems(_), DumpsMembers(_)

\* json.dumps with its default separators ", " and ": ".
Dumps(v) ==
    IF v.kind = "str" THEN <<Quote>> \o v.body \o <<Quote>>
    ELSE IF v.kind = "num" THEN v.body
    ELSE IF v.kind = "list" THEN <<"[">> \o DumpsItems(v.body) \o <<"]">>
    ELSE <<"{">> \o DumpsMembers(v.body) \o <<"}">>

DumpsItems(vs) ==
    IF vs = <<>> THEN <<>>
    ELSE IF Len(vs) = 1 THEN Dumps(vs[1])
    ELSE Dumps(vs[1]) \o <<",", " ">> \o DumpsItems(Tail(vs))

DumpsMembers(ms) ==
    IF ms = <<>> THEN <<>>
    ELSE LET one == Dumps(ms[1][1]) \o <<":", " ">> \o Dumps(ms[1][2])
         IN IF Len(ms) = 1 THEN one
            ELSE one \o <<",", " ">> \o DumpsMembers(Tail(ms))

\* What json_repair's parser may give for a text json.loads rejects: nothing
\* (the empty string), an empty object, an empty string value; and "NaN",
\* which json.loads and json.dumps pass through and orjson.loads rejects.
RepairedTexts == {<<>>, <<"{", "}">>, <<Quote, Quote>>, <<"N", "a", "N">>}

\* repair_json(text): json.dumps(json.loads(text)) when the text is JSON, the
\* library's repair otherwise.
RepairJson(t, repaired) ==
    IF Loads(t).ok THEN Dumps(Loads(t).val) ELSE repaired

\* _parse_gemini_response with a fallback value: the empty object when loads
\* raises.
ParseResponseFallback(text, repaired) ==
    LET loaded == Loads(RepairJson(StripFences(text), repaired))
    IN IF loaded.ok THEN loaded.val ELSE JDict(<<>>)

\* _parse_gemini_response(response_text), and the same statements at the end
\* of send_to_gemini: any exception gives None.
ParseResponseText(text, repaired) ==
    LET good_json_string == RepairJson(StripFences(text), repaired)
        loaded == Loads(good_json_string)
    IN IF loaded.ok THEN loaded.val ELSE JNone

(***************************************************************************)
(* Job events                                                              *)
(***************************************************************************)

\* An event is a dictionary; has_fields = FALSE is the empty dictionary {}.
\* A field that is None is a key the dictionary does not have.
Event(hf, p, u, a) == [has_fields |-> hf, project_id |-> p, user_id |-> u, action |-> a]

NoEvent == Event(FALSE, None, None, None)

\* The events handed to the handlers: the empty one, one with only other keys,
\* one defect per field, and the well-formed job of every project.
Events ==
    {NoEvent, Event(TRUE, None, None, None)}
        \cup {Event(TRUE, p, "u1", "process") : p \in Projects \cup {None, ""}}
        \cup {Event(TRUE, "p1", u, "process") : u \in {None, ""}}
        \cup {Event(TRUE, "p1", "u1", a) : a \in {None, "delete"}}

\* Python truthiness of a string-or-None field.
Falsy(x) == x \in {None, ""}

VARIABLES
    projects,       \* projects collection: project_id -> status
    file_info,      \* file_info collection: project_id -> document
    pc,             \* position of the running handler
    entry,          \* which entry point is running
    ai_service_type,\* "gemini" or "openai": the adapter of ProjectFileService
    event,          \* the event being handled
    pid,            \* file_info.project_id of the in-memory FileInfo
    files,          \* file_info.files of the in-memory FileInfo
    i,              \* index of the file the loop is at
    file_content,   \* what download_file returned for files[i]
    result,         \* what process_files returned
    response,       \* statusCode the handler returned, 0 before it returns
    calls,          \* what this run called so far, and how each call ended
    start,          \* the store when the run began
    passed          \* files a completed run fetched, analysed and saved

\* One call of _parse_gemini_response (the same statements end send_to_gemini).
VARIABLES
    response_text,  \* the reply text handed to the stage
    json_text,      \* the JSON text the reply was built around, <<>> if none
    json_string_to_parse, \* the text handed to repair_json
    good_json_string,\* what repair_json returned
    parsed,         \* what the stage returned
    parse_pc        \* "idle", "called", "returned"

parse_vars == <<response_text, json_text, json_string_to_parse, good_json_string,
                parsed, parse_pc>>

\* One aggregation of the chat_pipeline stages over the file_info collection.
VARIABLES
    docs,           \* the documents, most similar to the query vector first
    context,        \* user_id and project_id of the ChatInput
    hits,           \* indexes of the documents the pipeline returned, in order
    chat_pc         \* "idle", "done"

chat_vars == <<docs, context, hits, chat_pc>>

\* The web application's side: object storage, the job queue, and the last
\* call of an endpoint.
VARIABLES
    bucket,         \* project_id -> s3_key -> the bytes stored, None if no object
    queue,          \* the messages on the SQS queue, oldest first
    web_call        \* the endpoint called last, its project, and what it returned

web_vars == <<bucket, queue, web_call>>

\* One call of llm_stream: the async generator and its consumer.
VARIABLES
    chunks,         \* what the backend stream will produce, in order
    pulled,         \* how many chunks the generator has taken from the stream
    delivered,      \* the tokens yielded to the consumer, in order
    gen,            \* "suspended", "running", "finished", "closed"
    cancelled,      \* the consumer has cancelled or disconnected
    raised          \* an exception has left the generator

stream_vars == <<chunks, pulled, delivered, gen, cancelled, raised>>

\* Concurrent requests of the web application and concurrent job runs, on the
\* two collections as lists of documents.
VARIABLES
    db_projects,    \* the projects collection: its documents, oldest first
    db_file_info,   \* the file_info collection: its documents, oldest first
    task            \* per task: the call it runs, where it is, and its locals

race_vars == <<db_projects, db_file_info, task>>

\* The tasks that run side by side.
Tasks == {1, 2}

\* A task that runs nothing.
NoTask ==
    [op |-> "none", pc |-> "idle", project_id |-> None, status |-> None,
     found |-> 0, files |-> <<>>, at |-> 0, names |-> <<>>, uploaded |-> <<>>,
     update_input |-> [s3_key |-> 0, file_description |-> "", document_category |-> "other"],
     result |-> None]

RaceIdle ==
    /\ db_projects = <<>>
    /\ db_file_info = <<>>
    /\ task = [t \in Tasks |-> NoTask]

\* The state the job's actions leave alone.
others == <<parse_vars, chat_vars, web_vars, stream_vars, race_vars>>

StreamIdle ==
    /\ chunks = <<>>
    /\ pulled = 0
    /\ delivered = <<>>
    /\ gen = "suspended"
    /\ cancelled = FALSE
    /\ raised = FALSE

NoWebCall == [op |-> "none", project_id |-> None, status |-> None]

WebIdle ==
    /\ bucket = [p \in Projects |-> [k \in 1..MaxFiles |-> None]]
    /\ queue = <<>>
    /\ web_call = NoWebCall

ParseIdle ==
    /\ response_text = <<>>
    /\ json_text = <<>>
    /\ json_string_to_parse = <<>>
    /\ good_json_string = <<>>
    /\ parsed = JNone
    /\ parse_pc = "idle"

ChatIdle ==
    /\ docs = <<>>
    /\ context = [user_id |-> None, project_id |-> None]
    /\ hits = <<>>
    /\ chat_pc = "idle"

store == [projects |-> projects, file_info |-> file_info]

vars == <<projects, file_info, pc, entry, ai_service_type, event, pid, files, i,
          file_content, result, response, calls, start, passed>>

NoCalls ==
    [fetch |-> [j \in 1..MaxFiles |-> "none"],    \* "ok", "fail"
     ai |-> [j \in 1..MaxFiles |-> "none"],       \* "ok", "null"
     backend |-> [j \in 1..MaxFiles |-> FALSE],   \* the AI backend was called
     embed |-> [j \in 1..MaxFiles |-> "none"],    \* "error"
     lookup |-> "none",    \* "fault", "missing", "undecodable", "found", "no_method"
     db_reads |-> 0,
     db_writes |-> 0,
     db_fault |-> FALSE]

Init ==
    /\ projects \in [Projects -> {"absent", "in_progress"}]
    /\ file_info \in {f \in [Projects -> InitDocs] : f["p2"] \in OtherDocs}
    /\ pc = "idle"
    /\ entry = "none"
    /\ ai_service_type = "gemini"
    /\ event = NoEvent
    /\ pid = None
    /\ files = <<>>
    /\ i = 0
    /\ file_content = None
    /\ result = None
    /\ response = 0
    /\ calls = NoCalls
    /\ start = store
    /\ passed = {}
    /\ ParseIdle
    /\ ChatIdle
    /\ WebIdle
    /\ StreamIdle
    /\ RaceIdle

(***************************************************************************)
(* The AI adapters                                                         *)
(***************************************************************************)

\* What download_file may return: None (the get_object call raised), empty
\* bytes, bytes that decode as UTF-8, bytes that do not.
Contents == {None, "", "text", "binary"}

\* The fence strip, repair_json and orjson.loads of a reply text: the parsed
\* value, or None when loads raises on what repair_json returned.
ParseGeminiResponse(reply) ==
    IF reply = "json" THEN Parsed(reply) ELSE NoAnalysis

\* send_to_gemini and GeminiService.process_file: only a PDF is sent; any
\* exception gives None. value: what is returned; called: the backend was
\* called.
SendToGemini(isPdf, content, outcome) ==
    IF ~isPdf THEN [value |-> NoAnalysis, called |-> FALSE]
    ELSE IF outcome = "error" THEN [value |-> NoAnalysis, called |-> TRUE]
    ELSE [value |-> ParseGeminiResponse(outcome), called |-> TRUE]

\* OpenAIService.process_file: a PDF is sent as it is; other content is decoded
\* as UTF-8 first, and a decode failure returns None before any call. The reply
\* text is returned under the key "analysis".
OpenAIProcessFile(isPdf, content, outcome) ==
    IF ~isPdf /\ content = "binary" THEN [value |-> NoAnalysis, called |-> FALSE]
    ELSE IF outcome = "error" THEN [value |-> NoAnalysis, called |-> TRUE]
    ELSE [value |-> RawReply(outcome), called |-> TRUE]

\* AIServiceFactory.get_service: "openai" gives OpenAIService, anything else
\* GeminiService.
ProcessFile(service_type, isPdf, content, outcome) ==
    IF service_type = "openai" THEN OpenAIProcessFile(isPdf, content, outcome)
    ELSE SendToGemini(isPdf, content, outcome)

\* Python truthiness of an adapter result (None and the empty value are falsy).
Truthy(a) == a.kind # "none"

(***************************************************************************)
(* The handlers                                                            *)
(***************************************************************************)

Handlers == {"lambda_handler", "handle_event"}

\* Validate without the user_id check.
ValidateSkipUser(ev) ==
    IF ~ev.has_fields THEN 200
    ELSE IF Falsy(ev.project_id) THEN 400
    ELSE IF ev.action # "process" THEN 400
    ELSE 0

\* Validate without the action check.
ValidateSkipAction(ev) ==
    IF ~ev.has_fields THEN 200
    ELSE IF Falsy(ev.project_id) THEN 400
    ELSE IF Falsy(ev.user_id) THEN 400
    ELSE 0

\* The checks at the head of lambda_handler and handle_event: the status code
\* returned at once, or 0 when the event goes on to the project lookup.
Validate(ev) ==
    IF ~ev.has_fields THEN 200
    ELSE IF Falsy(ev.project_id) THEN 400
    ELSE IF Falsy(ev.user_id) THEN 400
    ELSE IF ev.action # "process" THEN 400
    ELSE 0

\* UploadedFile.from_dict is cls(**data): it raises TypeError on an entry that
\* lacks _id, revision_id or embeddings.
FromDictRaises(doc) == doc.files # <<>> /\ ~doc.full

\* The handler's last step: 200 when process_files returned True, 500
\* otherwise. A direct call of process_files has no status code.
Return(res) ==
    /\ result' = res
    /\ response' = IF entry \in Handlers THEN (IF res = "True" THEN 200 ELSE 500) ELSE 0
    /\ pc' = "done"

\* The end of one iteration of the for loop over file_info.files.
NextFile ==
    IF i < Len(files)
    THEN /\ i' = i + 1
         /\ pc' = "download"
    ELSE /\ i' = i
         /\ pc' = "save"

\* lambda_handler and LambdaController.handle_event up to the project lookup.
HandleEvent(ev, en, ty) ==
    /\ pc \in {"idle", "done"}
    /\ event' = ev
    /\ entry' = en
    /\ ai_service_type' = ty
    /\ pid' = None
    /\ files' = <<>>
    /\ i' = 0
    /\ file_content' = None
    /\ result' = None
    /\ calls' = NoCalls
    /\ start' = store
    /\ response' = Validate(ev)
    /\ pc' = IF Validate(ev) # 0 THEN "done" ELSE "lookup"
    /\ UNCHANGED <<projects, file_info, passed>>
    /\ UNCHANGED others

\* get_project_details of lambda_function.py: find_one on file_info and
\* FileInfo.from_dict, every exception turned into None, None into 404.
GetProjectDetails(fault) ==
    /\ pc = "lookup"
    /\ entry = "lambda_handler"
    /\ LET doc == file_info[event.project_id]
           outcome == IF fault THEN "fault"
                      ELSE IF ~doc.exists THEN "missing"
                      ELSE IF FromDictRaises(doc) THEN "undecodable"
                      ELSE "found"
       IN /\ calls' = [calls EXCEPT !.lookup = outcome,
                                    !.db_reads = @ + 1,
                                    !.db_fault = fault]
          /\ IF outcome = "found"
             THEN /\ pid' = event.project_id
                  /\ files' = doc.files
                  /\ pc' = "process"
                  /\ UNCHANGED response
             ELSE /\ response' = 404
                  /\ pc' = "done"
                  /\ UNCHANGED <<pid, files>>
    /\ UNCHANGED <<projects, file_info, entry, ai_service_type, event, i,
                   file_content, result, start, passed>>
    /\ UNCHANGED others

\* handle_event calls self.db_manager.get_file_info, a method DatabaseManager
\* does not have: AttributeError, caught by handle_event's except, 500.
GetFileInfo ==
    /\ pc = "lookup"
    /\ entry = "handle_event"
    /\ calls' = [calls EXCEPT !.lookup = "no_method"]
    /\ response' = 500
    /\ pc' = "done"
    /\ UNCHANGED <<projects, file_info, entry, ai_service_type, event, pid, files, i,
                   file_content, result, start, passed>>
    /\ UNCHANGED others

\* ProjectFileService.process_files called with the FileInfo of a stored
\* document (the method is public; handle_event never reaches its call).
InvokeService(p, ty) ==
    /\ pc \in {"idle", "done"}
    /\ file_info[p].exists
    /\ ~FromDictRaises(file_info[p])
    /\ entry' = "process_files"
    /\ ai_service_type' = ty
    /\ event' = NoEvent
    /\ pid' = p
    /\ files' = file_info[p].files
    /\ i' = 0
    /\ file_content' = None
    /\ result' = None
    /\ response' = 0
    /\ calls' = [NoCalls EXCEPT !.lookup = "found"]
    /\ start' = store
    /\ pc' = "process"
    /\ UNCHANGED <<projects, file_info, passed>>
    /\ UNCHANGED others

\* The head of process_files: an empty file list returns False.
ProcessFiles ==
    /\ pc = "process"
    /\ IF files = <<>>
       THEN /\ Return("False")
            /\ UNCHANGED i
       ELSE /\ i' = 1
            /\ pc' = "download"
            /\ UNCHANGED <<result, response>>
    /\ UNCHANGED <<projects, file_info, entry, ai_service_type, event, pid, files,
                   file_content, calls, start, passed>>
    /\ UNCHANGED others

\* download_file(file.s3_key); a falsy result skips the file (continue).
DownloadFile(content) ==
    /\ pc = "download"
    /\ file_content' = content
    /\ calls' = [calls EXCEPT !.fetch[i] = IF Falsy(content) THEN "fail" ELSE "ok"]
    /\ IF Falsy(content)
       THEN NextFile
       ELSE /\ pc' = "analyze"
            /\ UNCHANGED i
    /\ UNCHANGED <<projects, file_info, entry, ai_service_type, event, pid, files,
                   result, response, start, passed>>
    /\ UNCHANGED others

\* The adapter call and the assignment of a truthy result to
\* file.analysis_result. business_logic.process_files always uses
\* send_to_gemini and then moves to the next file; ProjectFileService goes on
\* to the embeddings.
Analyze(outcome) ==
    /\ pc = "analyze"
    /\ LET ty == IF entry = "lambda_handler" THEN "gemini" ELSE ai_service_type
           r == ProcessFile(ty, files[i].pdf, file_content, outcome)
       IN /\ files' = IF Truthy(r.value)
                      THEN [files EXCEPT ![i].analysis_result = r.value]
                      ELSE files
          /\ calls' = [calls EXCEPT !.ai[i] = IF Truthy(r.value) THEN "ok" ELSE "null",
                                    !.backend[i] = r.called]
    /\ IF entry = "lambda_handler"
       THEN NextFile
       ELSE /\ pc' = "embed"
            /\ UNCHANGED i
    /\ UNCHANGED <<projects, file_info, entry, ai_service_type, event, pid,
                   file_content, result, response, start, passed>>
    /\ UNCHANGED others

\* UploadedFile.dict() as a JSON value: every attribute of the file, s3_key
\* among them (and likewise _id and revision_id, which the entries here do
\* not carry).
FileDict(file) ==
    JDict(<< <<JStr(<<"embeddings">>), JStr(<<file.embeddings>>)>>,
             <<JStr(<<"file_name">>), JStr(<<IF file.pdf THEN "a.pdf" ELSE "a.txt">>)>>,
             <<JStr(<<"s3_key">>), JStr(<<ToString(file.s3_key)>>)>>,
             <<JStr(<<"analysis_result">>),
               JStr(<<file.analysis_result.kind, file.analysis_result.text>>)>> >>)

\* The argument of generate_embeddings: json.dumps(file.dict()).
EmbeddingInput(file) == Dumps(FileDict(file))

\* ProjectFileService.process_files asks the OpenAIService for
\* generate_embeddings, a method it does not have: AttributeError, caught by
\* the except of process_files, which returns False.
GenerateEmbeddings ==
    /\ pc = "embed"
    /\ calls' = [calls EXCEPT !.embed[i] = "error"]
    /\ Return("False")
    /\ UNCHANGED <<projects, file_info, entry, ai_service_type, event, pid, files, i,
                   file_content, start, passed>>
    /\ UNCHANGED others

\* business_logic.process_files: update_one on file_info, $set files to the
\* in-memory list. An exception returns False.
SaveFiles(fault) ==
    /\ pc = "save"
    /\ entry = "lambda_handler"
    /\ IF fault
       THEN /\ calls' = [calls EXCEPT !.db_fault = TRUE]
            /\ Return("False")
            /\ UNCHANGED <<file_info, passed>>
       ELSE /\ file_info' = [file_info EXCEPT
                                ![pid] = IF @.exists THEN FileInfoDoc(TRUE, files) ELSE @]
            /\ passed' = IF file_info[pid].exists
                         THEN passed \cup {<<pid, files[j].s3_key>> :
                                             j \in {k \in 1..Len(files) : calls.ai[k] = "ok"}}
                         ELSE passed
            /\ calls' = [calls EXCEPT !.db_writes = @ + 1]
            /\ pc' = "save_status"
            /\ UNCHANGED <<result, response>>
    /\ UNCHANGED <<projects, entry, ai_service_type, event, pid, files, i,
                   file_content, start>>
    /\ UNCHANGED others

\* business_logic.process_files: update_one on projects, $set status to
\* "completed" (no upsert), then return True. An exception returns False.
SaveStatus(fault) ==
    /\ pc = "save_status"
    /\ IF fault
       THEN /\ calls' = [calls EXCEPT !.db_fault = TRUE]
            /\ Return("False")
            /\ UNCHANGED projects
       ELSE /\ projects' = [projects EXCEPT
                               ![pid] = IF @ = "absent" THEN @ ELSE "completed"]
            /\ calls' = [calls EXCEPT !.db_writes = @ + 1]
            /\ Return("True")
    /\ UNCHANGED <<file_info, entry, ai_service_type, event, pid, files, i,
                   file_content, start, passed>>
    /\ UNCHANGED others

\* ProjectFileService._update_database calls self.db_manager.update_file_info,
\* a method DatabaseManager does not have: AttributeError, caught, False.
UpdateDatabase ==
    /\ pc = "save"
    /\ entry # "lambda_handler"
    /\ Return("False")
    /\ UNCHANGED <<projects, file_info, entry, ai_service_type, event, pid, files, i,
                   file_content, calls, start, passed>>
    /\ UNCHANGED others

Next ==
    \/ \E ev \in Events : HandleEvent(ev, "lambda_handler", "gemini")
    \/ \E ev \in Events : HandleEvent(ev, "handle_event", "gemini")
    \/ \E fault \in BOOLEAN : GetProjectDetails(fault)
    \/ GetFileInfo
    \/ \E p \in Projects, ty \in {"gemini", "openai"} : InvokeService(p, ty)
    \/ ProcessFiles
    \/ \E content \in Contents : DownloadFile(content)
    \/ \E outcome \in BackendOutcomes : Analyze(outcome)
    \/ GenerateEmbeddings
    \/ \E fault \in BOOLEAN : SaveFiles(fault)
    \/ \E fault \in BOOLEAN : SaveStatus(fault)
    \/ UpdateDatabase

Spec == Init /\ [][Next]_vars

(***************************************************************************)
(* Properties                                                              *)
(***************************************************************************)

\* A job event that is not {project_id, user_id, action: "process"} with
\* non-empty ids.
Malformed(ev) == Falsy(ev.project_id) \/ Falsy(ev.user_id) \/ ev.action # "process"

\* The run has made no storage, database, AI or embedding call.
NoAccess ==
    /\ \A j \in 1..MaxFiles :
          /\ calls.fetch[j] = "none"
          /\ calls.ai[j] = "none"
          /\ ~calls.backend[j]
          /\ calls.embed[j] = "none"
    /\ calls.db_reads = 0
    /\ calls.db_writes = 0

\* process_files has returned.
RunEnded == pc = "done" /\ result # None

\* C1 (as claimed): a file that already has an analysis_result when the run
\* starts is not fetched, not sent to the AI adapter and not embedded in it.
C1_Idempotence ==
    \A j \in 1..Len(files) :
        start.file_info[pid].files[j].analysis_result.kind # "none"
            => /\ calls.fetch[j] = "none"
               /\ calls.ai[j] = "none"
               /\ calls.embed[j] = "none"

\* C2 (as claimed): when the fetch fails for exactly one file k, which had no
\* analysis_result, and nothing else fails, every file was fetched, the run
\* returns True, the other files are stored analysed and file k is not.
C2_BatchResilience ==
    RunEnded =>
        \A k \in 1..Len(files) :
            (/\ calls.fetch[k] = "fail"
             /\ start.file_info[pid].files[k].analysis_result.kind = "none"
             /\ \A j \in 1..Len(files) \ {k} : calls.fetch[j] # "fail" /\ calls.ai[j] # "null"
             /\ ~calls.db_fault)
                => /\ \A j \in 1..Len(files) : calls.fetch[j] # "none"
                   /\ result = "True"
                   /\ \A j \in 1..Len(files) \ {k} :
                          file_info[pid].files[j].analysis_result.kind # "none"
                   /\ file_info[pid].files[k].analysis_result.kind = "none"

\* C3 (as claimed): a run for a project that has a record, with no database
\* failure, returns True and leaves the project's status "completed".
C3_AlwaysCompleted ==
    (RunEnded /\ start.projects[pid] # "absent" /\ ~calls.db_fault)
        => result = "True" /\ projects[pid] = "completed"

\* C4 (as claimed): when the run ends without a database failure, every file
\* whose analysis succeeded and whose embedding call failed is stored with its
\* analysis_result and without embeddings.
C4_EmbeddingIndependence ==
    (RunEnded /\ ~calls.db_fault) =>
        \A j \in 1..Len(files) :
            (calls.ai[j] = "ok" /\ calls.embed[j] \in {"fail", "error"})
                => /\ file_info[pid].files[j].analysis_result.kind # "none"
                   /\ file_info[pid].files[j].embeddings = None

\* C5 (as claimed): a stored file has embeddings exactly when a run has
\* fetched it, analysed it and saved it.
C5_EmbeddingsIffPassed ==
    \A p \in Projects :
        \A j \in 1..Len(file_info[p].files) :
            (file_info[p].files[j].embeddings # None)
                <=> (<<p, file_info[p].files[j].s3_key>> \in passed)

C7_NoSideEffects ==
    (entry \in Handlers /\ pc # "idle" /\ event.has_fields /\ Malformed(event))
        => /\ pc = "done"
           /\ NoAccess
           /\ store = start

\* C7 witness: a handler has rejected action "delete" for a project whose
\* file_info document exists.
C7_Witness ==
    /\ pc = "done"
    /\ entry \in Handlers
    /\ event.action = "delete"
    /\ response = 400
    /\ file_info[event.project_id].exists
    /\ file_info[event.project_id].files # <<>>

\* C8 (as claimed): a valid job for a project without a file_info document
\* ends in 404 with nothing fetched, analysed or written; a lookup that fails
\* because the database is unreachable ends in 500.
C8_NotFound ==
    (pc = "done" /\ entry \in Handlers /\ event.has_fields /\ ~Malformed(event))
        => /\ (~start.file_info[event.project_id].exists /\ ~calls.db_fault)
                 => /\ response = 404
                    /\ store = start
                    /\ \A j \in 1..MaxFiles : calls.fetch[j] = "none" /\ calls.ai[j] = "none"
           /\ calls.lookup = "fault" => response = 500

\* C9 (as claimed): a run that began with the project in_progress ends with
\* the project completed or failed.
C9_StatusLifecycle ==
    (RunEnded /\ start.projects[pid] = "in_progress")
        => projects[pid] \in {"completed", "failed"}

\* C10 (as claimed): what an adapter returned for a file is None or a value
\* parsed from the reply, never the reply text itself.
C10_NoRawReply ==
    \A j \in 1..Len(files) :
        calls.ai[j] = "ok" => files[j].analysis_result.kind = "parsed"

\* C11 (as claimed): an adapter call that fails gives None, the file keeps the
\* analysis_result it had, and the run goes on: when process_files has
\* returned, every file after the failed one has been fetched.
C11_AdapterNeverRaises ==
    \A j \in 1..Len(files) :
        calls.ai[j] = "null"
            => /\ files[j].analysis_result = start.file_info[pid].files[j].analysis_result
               /\ RunEnded => \A k \in (j + 1)..Len(files) : calls.fetch[k] # "none"

(***************************************************************************)
(* The Repair/Parse stage on reply texts                                   *)
(***************************************************************************)

\* No job is running and the store is empty.
JobIdle ==
    /\ projects = [p \in Projects |-> "absent"]
    /\ file_info = [p \in Projects |-> NoDoc]
    /\ pc = "idle"
    /\ entry = "none"
    /\ ai_service_type = "gemini"
    /\ event = NoEvent
    /\ pid = None
    /\ files = <<>>
    /\ i = 0
    /\ file_content = None
    /\ result = None
    /\ response = 0
    /\ calls = NoCalls
    /\ start = store
    /\ passed = {}

\* The whitespace put around a text and around its fences.
Pads == {<<>>, <<" ">>, <<"\n">>}

\* JSON texts: {}, [], 1, [1, 0], a string of three backticks, and an object
\* of three empty lists (the keys p, q, t stand for potential_errors,
\* questions and trade_requirements).
JsonTexts ==
    {<<"{", "}">>,
     <<"[", "]">>,
     <<"1">>,
     <<"[", "1", ",", " ", "0", "]">>,
     <<Quote, Backtick, Backtick, Backtick, Quote>>,
     <<"{", Quote, "p", Quote, ":", " ", "[", "]", ",", " ",
            Quote, "q", Quote, ":", " ", "[", "]", ",", " ",
            Quote, "t", Quote, ":", "[", "]", "}">>}

\* s in a Markdown JSON fence, with whitespace a, b, c, d around the fences.
Fenced(a, b, s, c, d) == a \o FenceOpen \o b \o s \o c \o FenceClose \o d

\* Texts that are not JSON: a word, an unterminated list, NaN, an opening
\* fence that is never closed, a fenced word, a closing fence alone, an
\* object between two closing fences.
BrokenTexts ==
    {<<"x">>,
     <<"[", "1">>,
     <<"N", "a", "N">>,
     FenceOpen \o <<"\n", "{", "}">>,
     Fenced(<<>>, <<"\n">>, <<"x">>, <<"\n">>, <<>>),
     FenceClose,
     FenceClose \o <<"\n", "{", "}", "\n">> \o FenceClose}

\* The replies handed to the stage, each with the JSON text it was built
\* around (<<>>: none).
ReplyTexts ==
    {<<Fenced(a, b, s, c, d), s>> : a \in Pads, b \in Pads, s \in JsonTexts,
                                    c \in Pads, d \in Pads}
        \cup {<<a \o s \o d, s>> : a \in Pads, s \in JsonTexts, d \in Pads}
        \cup {<<t, <<>>>> : t \in BrokenTexts}

ParseInit ==
    /\ JobIdle
    /\ ChatIdle
    /\ WebIdle
    /\ StreamIdle
    /\ RaceIdle
    /\ \E r \in ReplyTexts : response_text = r[1] /\ json_text = r[2]
    /\ json_string_to_parse = <<>>
    /\ good_json_string = <<>>
    /\ parsed = JNone
    /\ parse_pc = "called"

\* The call of _parse_gemini_response on the reply text.
ParseResponse(repaired) ==
    /\ parse_pc = "called"
    /\ json_string_to_parse' = StripFences(response_text)
    /\ good_json_string' = RepairJson(json_string_to_parse', repaired)
    /\ parsed' = ParseResponseText(response_text, repaired)
    /\ parse_pc' = "returned"
    /\ UNCHANGED <<response_text, json_text>>
    /\ UNCHANGED <<vars, chat_vars, web_vars, stream_vars, race_vars>>

ParseNext == \E repaired \in RepairedTexts : ParseResponse(repaired)

ParseSpec == ParseInit /\ [][ParseNext]_parse_vars

\* The reply is json_text in a JSON fence.
IsFenced ==
    \E a \in Pads, b \in Pads, c \in Pads, d \in Pads :
        response_text = Fenced(a, b, json_text, c, d)

\* C12: the stage returns for a JSON text in a Markdown JSON fence, whatever
\* the whitespace around the fences, the value it returns for the text alone,
\* which is the value of a direct parse of the text.
C12_RepairRoundTrip ==
    (parse_pc = "returned" /\ json_text # <<>> /\ IsFenced)
        => /\ \A repaired \in RepairedTexts :
                  parsed = ParseResponseText(json_text, repaired)
           /\ parsed = Loads(json_text).val
           /\ parsed.kind # "none"

\* C12 witness: the stage has returned the object of three empty lists for
\* its fenced text.
C12_Witness ==
    /\ parse_pc = "returned"
    /\ IsFenced
    /\ response_text # json_text
    /\ parsed.kind = "dict"
    /\ Len(parsed.body) = 3
    /\ \A n \in 1..3 : parsed.body[n][2] = JList(<<>>)

\* C13: when orjson.loads rejects what repair_json returned, the stage
\* returns None; it returns a value only when loads accepted the repaired
\* text, and then that value. Every call returns.
C13_RepairFailureClean ==
    parse_pc = "returned"
        => /\ ~Loads(good_json_string).ok => parsed = JNone
           /\ parsed # JNone => /\ Loads(good_json_string).ok
                                /\ parsed = Loads(good_json_string).val

\* C13 witness: the stage has returned None for a reply whose repaired text
\* orjson.loads rejects.
C13_Witness ==
    /\ parse_pc = "returned"
    /\ json_text = <<>>
    /\ ~Loads(good_json_string).ok
    /\ parsed = JNone

(***************************************************************************)
(* The chat similarity search                                              *)
(***************************************************************************)

Users == {"u1", "u2"}

\* The most documents in the file_info collection.
MaxDocs == 3

\* "limit" and "numCandidates" of the $vectorSearch stage (100 and 150 in the
\* code), scaled to the size of the collection here.
Limit == 2
NumCandidates == 3

\* A file_info document as the pipeline sees it: its owner, its project, and
\* whether files.embeddings holds a vector the index can match.
DocRecords == [user_id : Users, project_id : Projects, embedded : BOOLEAN]

\* The first n entries of s.
Take(s, n) == SubSeq(s, 1, IF n < Len(s) THEN n ELSE Len(s))

\* The $vectorSearch stage: of the documents that have a vector, the
\* numCandidates nearest to the query vector, and of these the limit nearest,
\* nearest first. ds lists the documents nearest first.
VectorSearch(ds) ==
    LET HasVector(k) == ds[k].embedded
        nearest == SelectSeq([k \in 1..Len(ds) |-> k], HasVector)
    IN Take(Take(nearest, NumCandidates), Limit)

\* A $match stage on project_id alone.
MatchProjectOnly(ds, found, ctx) ==
    LET InProject(k) == ds[k].project_id = ctx.project_id
    IN SelectSeq(found, InProject)

\* The $match stage: user_id and project_id equal to those of the ChatInput.
Match(ds, found, ctx) ==
    LET InScope(k) == /\ ds[k].user_id = ctx.user_id
                      /\ ds[k].project_id = ctx.project_id
    IN SelectSeq(found, InScope)

\* The two stages chat_pipeline returns, run in order.
ChatPipeline(ds, ctx) == Match(ds, VectorSearch(ds), ctx)

ChatInit ==
    /\ JobIdle
    /\ ParseIdle
    /\ WebIdle
    /\ StreamIdle
    /\ RaceIdle
    /\ docs \in UNION {[1..n -> DocRecords] : n \in 0..MaxDocs}
    /\ context = [user_id |-> None, project_id |-> None]
    /\ hits = <<>>
    /\ chat_pc = "idle"

\* The collection's aggregate with the pipeline of chat_pipeline for the
\* ChatInput of user u and project p.
Aggregate(u, p) ==
    /\ chat_pc = "idle"
    /\ context' = [user_id |-> u, project_id |-> p]
    /\ hits' = ChatPipeline(docs, context')
    /\ chat_pc' = "done"
    /\ UNCHANGED docs
    /\ UNCHANGED <<vars, parse_vars, web_vars, stream_vars, race_vars>>

ChatNext == \E u \in Users, p \in Projects : Aggregate(u, p)

ChatSpec == ChatInit /\ [][ChatNext]_chat_vars

\* C14: every document the search returns has the user_id and the project_id
\* of the ChatInput, whatever the collection holds and however near the other
\* documents are to the query vector.
C14_ScopeIsolation ==
    chat_pc = "done"
        => \A n \in 1..Len(hits) :
               /\ docs[hits[n]].user_id = context.user_id
               /\ docs[hits[n]].project_id = context.project_id

\* C14 witness: the search has returned a document although a document of
\* another user in the same project is nearer to the query vector.
C14_Witness ==
    /\ chat_pc = "done"
    /\ hits # <<>>
    /\ \E k \in 1..Len(docs) :
          /\ k < hits[1]
          /\ docs[k].embedded
          /\ docs[k].user_id # context.user_id
          /\ docs[k].project_id = context.project_id

\* C15 (as claimed): the text built for the embedding call of a file is the
\* text built for a file that differs from it only in its storage key.
C15_EmbeddingInputStable ==
    pc = "embed"
        => \A k \in 1..MaxFiles :
               EmbeddingInput([files[i] EXCEPT !.s3_key = k]) = EmbeddingInput(files[i])

\* C16 (as claimed): when process_files has returned for a non-empty file
\* list, every file that had no analysis_result has been fetched, and every
\* file whose fetch succeeded has been handed to the AI adapter.
C16_AttemptedOnce ==
    (RunEnded /\ files # <<>>)
        => \A j \in 1..Len(files) :
               start.file_info[pid].files[j].analysis_result.kind = "none"
                   => /\ calls.fetch[j] # "none"
                      /\ calls.fetch[j] = "ok" => calls.ai[j] # "none"

(***************************************************************************)
(* The web application: upload_file and process_project                    *)
(***************************************************************************)

\* The bytes of an uploaded file.
Payloads == {"a", "b"}

\* The most messages on the queue.
MaxQueue == 2

\* The user every endpoint acts for.
TestUser == "test_user_id"

\* An upload names its file k; the s3_key built from user_id, project_id,
\* upload_type and that name is key k of the project. Name 1 ends in ".pdf".
IsPdfName(k) == k = 1

\* file_details of a FileInput: one file or more, each with its contents.
FileDetails == [file_name : 1..MaxFiles, contents : Payloads]
FileInputs == UNION {[1..n -> FileDetails] : n \in 1..MaxFiles}

\* The files of a FileInfo document read through the web application's
\* UploadedFile model, which has the fields file_name, s3_key,
\* file_description and document_category and no others.
AsWebModel(fs) ==
    [j \in 1..Len(fs) |-> [fs[j] EXCEPT !.analysis_result = NoAnalysis,
                                        !.embeddings = None]]

RECURSIVE UploadLoop(_, _, _, _)

\* The loop of upload_file over file_details: every file is put under its
\* s3_key, and appended to the files when the put returned a URL. puts says
\* for each file whether put_object succeeded.
UploadLoop(details, puts, fs, objects) ==
    IF details = <<>> THEN [files |-> fs, objects |-> objects]
    ELSE LET d == Head(details)
         IN IF Head(puts)
            THEN UploadLoop(Tail(details), Tail(puts),
                            Append(fs, UploadedFile(d.file_name, IsPdfName(d.file_name))),
                            [objects EXCEPT ![d.file_name] = d.contents])
            ELSE UploadLoop(Tail(details), Tail(puts), fs, objects)

job_locals == <<pc, entry, ai_service_type, event, pid, files, i, file_content,
                result, response, calls, start, passed>>

WebInit ==
    /\ JobIdle
    /\ ParseIdle
    /\ ChatIdle
    /\ StreamIdle
    /\ RaceIdle
    /\ WebIdle

\* upload_file for the first project: find_one or a new FileInfo, the loop,
\* save. A failing find_one or save raises out of the endpoint.
UploadFile(details, puts, db_ok) ==
    LET p == "p1"
        doc == file_info[p]
        before == IF doc.exists THEN AsWebModel(doc.files) ELSE <<>>
        r == UploadLoop(details, puts, before, bucket[p])
    IN /\ Len(r.files) <= MaxFiles
       /\ bucket' = [bucket EXCEPT ![p] = r.objects]
       /\ file_info' = IF db_ok THEN [file_info EXCEPT ![p] = FileInfoDoc(FALSE, r.files)]
                       ELSE file_info
       /\ web_call' = [op |-> "upload_file", project_id |-> p,
                       status |-> IF db_ok THEN "success" ELSE "raised"]
       /\ UNCHANGED <<projects, queue>>
       /\ UNCHANGED <<job_locals, parse_vars, chat_vars, stream_vars, race_vars>>

\* process_project: update_project_status(in_progress), which creates the
\* Project when there is none, then send_message; send_message returns None
\* when the queue cannot be reached. Every exception gives status "error".
ProcessProject(p, db_ok, sqs_ok) ==
    /\ sqs_ok => Len(queue) < MaxQueue
    /\ projects' = IF db_ok THEN [projects EXCEPT ![p] = "in_progress"] ELSE projects
    /\ queue' = IF db_ok /\ sqs_ok
                THEN Append(queue, Event(TRUE, p, TestUser, "process"))
                ELSE queue
    /\ web_call' = [op |-> "process_project", project_id |-> p,
                    status |-> IF db_ok /\ sqs_ok THEN "success" ELSE "error"]
    /\ UNCHANGED <<file_info, bucket>>
    /\ UNCHANGED <<job_locals, parse_vars, chat_vars, stream_vars, race_vars>>

WebNext ==
    \/ \E details \in FileInputs :
          \E puts \in [1..Len(details) -> BOOLEAN], db_ok \in BOOLEAN :
              UploadFile(details, puts, db_ok)
    \/ \E p \in Projects, db_ok \in BOOLEAN, sqs_ok \in BOOLEAN :
          ProcessProject(p, db_ok, sqs_ok)

WebSpec == WebInit /\ [][WebNext]_<<projects, file_info, web_vars>>

\* The s3_keys on the file records of project p.
RecordedKeys(p) == {file_info[p].files[j].s3_key : j \in 1..Len(file_info[p].files)}

\* C17 (as claimed): no two file records of a project have the same s3_key,
\* and no step stores other bytes under an s3_key that a file record names.
C17_StorageKeyStable ==
    /\ [](\A p \in Projects :
             \A j, k \in 1..Len(file_info[p].files) :
                 file_info[p].files[j].s3_key = file_info[p].files[k].s3_key => j = k)
    /\ [][\A p \in Projects :
             \A k \in RecordedKeys(p) : bucket'[p][k] = bucket[p][k]]_<<file_info, bucket>>

\* C18 (as claimed): when process_project has returned and the project is
\* in_progress, a job message for the project is on the queue.
C18_InProgressMeansEnqueued ==
    (web_call.op = "process_project" /\ projects[web_call.project_id] = "in_progress")
        => \E n \in 1..Len(queue) :
               queue[n] = Event(TRUE, web_call.project_id, TestUser, "process")

(***************************************************************************)
(* The chat token stream                                                   *)
(***************************************************************************)

\* The longest backend stream.
MaxChunks == 3

\* What the backend stream produces: an object that is no ChatCompletionChunk,
\* a chunk with no choices, a chunk whose first choice has the delta content c.
OtherItem == [is_chunk |-> FALSE, choices |-> FALSE, content |-> None]
NoChoices == [is_chunk |-> TRUE, choices |-> FALSE, content |-> None]
Delta(c) == [is_chunk |-> TRUE, choices |-> TRUE, content |-> c]

StreamItems == {OtherItem, NoChoices} \cup {Delta(c) : c \in {None, "", "x", "y"}}

\* The three tests of llm_stream without the test of the content.
YieldsAnyDelta(chunk) == chunk.is_chunk /\ chunk.choices

\* The three tests of llm_stream: a ChatCompletionChunk, with choices, whose
\* first choice has a truthy delta content.
Yields(chunk) == chunk.is_chunk /\ chunk.choices /\ ~Falsy(chunk.content)

StreamInit ==
    /\ JobIdle
    /\ ParseIdle
    /\ ChatIdle
    /\ WebIdle
    /\ RaceIdle
    /\ chunks \in UNION {[1..n -> StreamItems] : n \in 0..MaxChunks}
    /\ pulled = 0
    /\ delivered = <<>>
    /\ gen = "suspended"
    /\ cancelled = FALSE
    /\ raised = FALSE

stream_others == <<vars, parse_vars, chat_vars, web_vars, race_vars>>

\* The consumer awaits the next token: the generator runs on.
Anext ==
    /\ ~cancelled
    /\ gen = "suspended"
    /\ gen' = "running"
    /\ UNCHANGED <<chunks, pulled, delivered, cancelled, raised>>
    /\ UNCHANGED stream_others

\* One turn of "async for chunk in stream": the chunk is yielded, which
\* suspends the generator, or skipped.
Pull ==
    /\ gen = "running"
    /\ pulled < Len(chunks)
    /\ pulled' = pulled + 1
    /\ IF Yields(chunks[pulled + 1])
       THEN /\ delivered' = Append(delivered, chunks[pulled + 1].content)
            /\ gen' = "suspended"
       ELSE UNCHANGED <<delivered, gen>>
    /\ UNCHANGED <<chunks, cancelled, raised>>
    /\ UNCHANGED stream_others

\* The stream is exhausted: the generator returns.
EndOfStream ==
    /\ gen = "running"
    /\ pulled = Len(chunks)
    /\ gen' = "finished"
    /\ UNCHANGED <<chunks, pulled, delivered, cancelled, raised>>
    /\ UNCHANGED stream_others

\* The create call or a read of the stream raises: llm_stream has no handler,
\* the exception leaves the generator.
BackendFails ==
    /\ gen = "running"
    /\ gen' = "closed"
    /\ raised' = TRUE
    /\ UNCHANGED <<chunks, pulled, delivered, cancelled>>
    /\ UNCHANGED stream_others

\* The consumer cancels or disconnects: a generator suspended at its yield or
\* waiting for a chunk is closed there.
Cancel ==
    /\ ~cancelled
    /\ cancelled' = TRUE
    /\ gen' = IF gen \in {"suspended", "running"} THEN "closed" ELSE gen
    /\ UNCHANGED <<chunks, pulled, delivered, raised>>
    /\ UNCHANGED stream_others

StreamNext == Anext \/ Pull \/ EndOfStream \/ BackendFails \/ Cancel

StreamSpec == StreamInit /\ [][StreamNext]_stream_vars

\* The content deltas of a stream: the contents of its chunks that have
\* choices and a non-empty content, in order.
ContentDeltas(cs) ==
    LET HasContent(c) == c.is_chunk /\ c.choices /\ c.content \notin {None, ""}
        kept == SelectSeq(cs, HasContent)
    IN [n \in 1..Len(kept) |-> kept[n].content]

\* C19: the tokens delivered are always the content deltas of the chunks
\* pulled so far, in order, hence a prefix of the stream's content deltas;
\* and from the cancellation on no chunk is pulled, no token is delivered and
\* no exception leaves the generator.
C19_StreamPrefixCancelable ==
    /\ [](/\ delivered = ContentDeltas(SubSeq(chunks, 1, pulled))
          /\ Len(delivered) <= Len(ContentDeltas(chunks))
          /\ delivered = SubSeq(ContentDeltas(chunks), 1, Len(delivered)))
    /\ [][cancelled' => /\ pulled' = pulled
                        /\ delivered' = delivered
                        /\ raised' = raised]_stream_vars

\* C19 witness: the consumer has cancelled after a token was delivered and a
\* chunk was skipped, with chunks left on the stream.
C19_Witness ==
    /\ cancelled
    /\ ~raised
    /\ delivered # <<>>
    /\ pulled > Len(delivered)
    /\ pulled < Len(chunks)
    /\ gen = "closed"

\* C20 (as claimed): when a write at the end of a run has failed,
\* process_files has returned False, the handler has returned 500, and the
\* store is what it was when the run began: no analysis result of the run is
\* stored and the project's status is unchanged.
C20_SaveFailureFatal ==
    (RunEnded /\ calls.db_fault)
        => /\ result = "False"
           /\ entry \in Handlers => response = 500
           /\ store = start

\* C21 (as claimed): in ProjectFileService.process_files the embedding of a
\* file is asked for only after the file was fetched and the adapter call
\* for it returned, and once the adapter call for a file has returned, with a
\* result or with null, and the run has moved past that file, the embedding
\* call for it was made and returned.
C21_FetchAnalyzeEmbed ==
    entry = "process_files" =>
        \A j \in 1..Len(files) :
            /\ calls.embed[j] # "none"
                   => calls.fetch[j] = "ok" /\ calls.ai[j] # "none"
            /\ (calls.ai[j] # "none" /\ (j < i \/ pc = "done"))
                   => calls.embed[j] \in {"ok", "null"}

\* C22 (as claimed): the search for (user, project) returns documents nearest
\* first, and a document of that user and project that has a vector is
\* missing from the result only when at least Limit documents of the same
\* user and project are nearer to the query vector than it is.
C22_ScopeIsHardFilter ==
    chat_pc = "done" =>
        LET InScope(k) == /\ docs[k].embedded
                          /\ docs[k].user_id = context.user_id
                          /\ docs[k].project_id = context.project_id
            returned == {hits[n] : n \in 1..Len(hits)}
        IN /\ \A n \in 1..(Len(hits) - 1) : hits[n] < hits[n + 1]
           /\ \A k \in 1..Len(docs) :
                  (InScope(k) /\ k \notin returned)
                      => Cardinality({n \in 1..(k - 1) : InScope(n)}) >= Limit

\* C23: the text handed to repair_json is, when the trimmed reply starts with
\* the opening fence and ends with the closing fence, what lies between that
\* opening fence and the closing fence at its end, trimmed, with every fence
\* marker inside it kept; in every other case it is the trimmed reply. The
\* value returned is the value of that text whenever that text is JSON.
C23_FenceStripping ==
    parse_pc = "returned" =>
        LET s == Strip(response_text)
            content == IF StartsWith(s, FenceOpen) /\ EndsWith(s, FenceClose)
                       THEN Strip(SubSeq(s, Len(FenceOpen) + 1, Len(s) - Len(FenceClose)))
                       ELSE s
        IN /\ json_string_to_parse = content
           /\ Loads(content).ok => parsed = Loads(content).val

\* C23 witness: a fenced reply whose content is a string of three backticks
\* has been parsed to that string.
C23_Witness ==
    /\ parse_pc = "returned"
    /\ IsFenced
    /\ Occurrences(json_string_to_parse, FenceClose) # {}
    /\ parsed = JStr(FenceClose)


\* C24 (as claimed): when the adapter has been called for a file that is not
\* a PDF with bytes that are not UTF-8, it returned null without calling the
\* backend, the file has the analysis_result it had, and a run that has ended
\* went on to the files after it; for a PDF the backend is called whatever
\* the bytes are.
C24_DecodeFailurePerFile ==
    \A j \in 1..Len(files) :
        (j = i /\ calls.ai[j] # "none")
            => /\ (~files[j].pdf /\ file_content = "binary")
                      => /\ calls.ai[j] = "null"
                         /\ ~calls.backend[j]
                         /\ files[j].analysis_result
                                = start.file_info[pid].files[j].analysis_result
                         /\ RunEnded => \A k \in (j + 1)..Len(files) :
                                            calls.fetch[k] # "none"
               /\ files[j].pdf => calls.backend[j]

(***************************************************************************)
(* Concurrent create_project and update_project_status                     *)
(***************************************************************************)

\* The most documents in the projects collection.
MaxProjectDocs == 3

\* A document of the projects collection.
ProjectDoc(p, s) == [project_id |-> p, status |-> s]

\* A find_one and update_one whose filter matches every document.
FindAny(coll, p) == IF coll = <<>> THEN 0 ELSE 1

\* find_one({"project_id": p}), and the document update_one({"project_id": p})
\* changes: the position of the oldest document of the collection with that
\* project_id, 0 when there is none.
FindOne(coll, p) ==
    LET at == {n \in 1..Len(coll) : coll[n].project_id = p}
    IN IF at = {} THEN 0 ELSE CHOOSE n \in at : \A k \in at : n <= k

race_others == <<vars, parse_vars, chat_vars, web_vars, stream_vars>>

RaceOthersIdle ==
    /\ JobIdle
    /\ ParseIdle
    /\ ChatIdle
    /\ WebIdle
    /\ StreamIdle

\* An empty store and no call in flight.
ProjectRaceInit ==
    /\ RaceOthersIdle
    /\ RaceIdle

\* update_project_status up to its first await: Project.find_one by
\* project_id.
FindProject(t, p, s) ==
    /\ task[t].pc = "idle"
    /\ task' = [task EXCEPT ![t] = [NoTask EXCEPT !.op = "update_project_status",
                                                  !.pc = "save",
                                                  !.project_id = p,
                                                  !.status = s,
                                                  !.found = FindOne(db_projects, p)]]
    /\ UNCHANGED <<db_projects, db_file_info>>
    /\ UNCHANGED race_others

\* The rest of update_project_status: project.save() inserts the new Project
\* when find_one gave None, and writes the status to the document found
\* otherwise.
SaveProject(t) ==
    /\ task[t].op = "update_project_status"
    /\ task[t].pc = "save"
    /\ task[t].found = 0 => Len(db_projects) < MaxProjectDocs
    /\ db_projects' =
           IF task[t].found = 0
           THEN Append(db_projects, ProjectDoc(task[t].project_id, task[t].status))
           ELSE [db_projects EXCEPT ![task[t].found].status = task[t].status]
    /\ task' = [task EXCEPT ![t] = NoTask]
    /\ UNCHANGED db_file_info
    /\ UNCHANGED race_others

\* create_project: a Project with a new uuid4 as project_id and status
\* "created" is inserted. The uuid is one no document and no call has.
CreateProject(t, p) ==
    /\ task[t].pc = "idle"
    /\ Len(db_projects) < MaxProjectDocs
    /\ FindOne(db_projects, p) = 0
    /\ \A u \in Tasks : task[u].project_id # p
    /\ db_projects' = Append(db_projects, ProjectDoc(p, "created"))
    /\ UNCHANGED <<db_file_info, task>>
    /\ UNCHANGED race_others

ProjectRaceNext ==
    \/ \E t \in Tasks, p \in Projects, s \in {"in_progress", "completed"} :
          FindProject(t, p, s)
    \/ \E t \in Tasks : SaveProject(t)
    \/ \E t \in Tasks, p \in Projects : CreateProject(t, p)

ProjectRaceSpec == ProjectRaceInit /\ [][ProjectRaceNext]_race_vars

\* C25 (as claimed): the projects collection never holds two documents with
\* the same project_id.
C25_ProjectIdUnique ==
    \A n, k \in 1..Len(db_projects) :
        db_projects[n].project_id = db_projects[k].project_id => n = k

(***************************************************************************)
(* Concurrent job runs (lambda_handler with business_logic.process_files)  *)
(***************************************************************************)

\* A document of the file_info collection.
RaceDoc(p, isFull, fs) ==
    [user_id |-> TestUser, project_id |-> p, full |-> isFull, files |-> fs]

\* The collections that hold the documents of f and the statuses of g, the
\* first project's before the second's.
FileInfoColl(f) ==
    (IF f["p1"].exists THEN <<RaceDoc("p1", f["p1"].full, f["p1"].files)>> ELSE <<>>)
        \o (IF f["p2"].exists THEN <<RaceDoc("p2", f["p2"].full, f["p2"].files)>> ELSE <<>>)

ProjectsColl(g) ==
    (IF g["p1"] # "absent" THEN <<ProjectDoc("p1", g["p1"])>> ELSE <<>>)
        \o (IF g["p2"] # "absent" THEN <<ProjectDoc("p2", g["p2"])>> ELSE <<>>)

\* The stores a job run may find: per project no file_info document or one
\* the job can decode, and no Project or one that is in_progress.
JobRaceInit ==
    /\ RaceOthersIdle
    /\ \E f \in [Projects -> {d \in InitDocs : ~FromDictRaises(d)}] :
           /\ f["p2"] \in OtherDocs
           /\ db_file_info = FileInfoColl(f)
    /\ \E g \in [Projects -> {"absent", "in_progress"}] : db_projects = ProjectsColl(g)
    /\ task = [t \in Tasks |-> NoTask]

\* A task's call has returned.
Done(t, res) ==
    task' = [task EXCEPT ![t].pc = "done", ![t].result = res]

\* lambda_handler for a well-formed event of project p up to the loop of
\* process_files: get_project_details (404 when no document is found or it
\* cannot be decoded), and False for an empty file list.
JobLookup(t, p) ==
    /\ task[t].pc = "idle"
    /\ LET n == FindOne(db_file_info, p)
           started == [NoTask EXCEPT !.op = "job", !.project_id = p, !.found = n]
       IN IF n = 0 \/ FromDictRaises(db_file_info[n])
          THEN task' = [task EXCEPT ![t] = [started EXCEPT !.pc = "done",
                                                           !.result = "404"]]
          ELSE IF db_file_info[n].files = <<>>
          THEN task' = [task EXCEPT ![t] = [started EXCEPT !.pc = "done",
                                                           !.result = "False"]]
          ELSE task' = [task EXCEPT ![t] = [started EXCEPT
                                               !.pc = "process",
                                               !.files = db_file_info[n].files,
                                               !.at = 1]]
    /\ UNCHANGED <<db_projects, db_file_info>>
    /\ UNCHANGED race_others

\* One iteration of the loop of process_files: download_file, send_to_gemini,
\* and the assignment of a truthy result to the in-memory file.
JobIterate(t, content, outcome) ==
    /\ task[t].op = "job"
    /\ task[t].pc = "process"
    /\ LET j == task[t].at
           r == SendToGemini(task[t].files[j].pdf, content, outcome)
           fs == IF ~Falsy(content) /\ Truthy(r.value)
                 THEN [task[t].files EXCEPT ![j].analysis_result = r.value]
                 ELSE task[t].files
       IN task' = [task EXCEPT ![t].files = fs,
                               ![t].at = IF j < Len(fs) THEN j + 1 ELSE j,
                               ![t].pc = IF j < Len(fs) THEN "process" ELSE "save"]
    /\ UNCHANGED <<db_projects, db_file_info>>
    /\ UNCHANGED race_others

\* update_one({"project_id": p}, {"$set": {"files": ...}}) on file_info: the
\* oldest document of the project gets the in-memory list. An exception
\* returns False.
JobSaveFiles(t, fault) ==
    /\ task[t].op = "job"
    /\ task[t].pc = "save"
    /\ IF fault
       THEN /\ Done(t, "False")
            /\ UNCHANGED db_file_info
       ELSE /\ LET n == FindOne(db_file_info, task[t].project_id)
               IN db_file_info' =
                      IF n = 0 THEN db_file_info
                      ELSE [db_file_info EXCEPT ![n].files = task[t].files,
                                                ![n].full = TRUE]
            /\ task' = [task EXCEPT ![t].pc = "save_status"]
    /\ UNCHANGED db_projects
    /\ UNCHANGED race_others

\* update_one({"project_id": p}, {"$set": {"status": "completed", ...}}) on
\* projects, then return True. An exception returns False.
JobSaveStatus(t, fault) ==
    /\ task[t].op = "job"
    /\ task[t].pc = "save_status"
    /\ IF fault
       THEN /\ Done(t, "False")
            /\ UNCHANGED db_projects
       ELSE /\ LET n == FindOne(db_projects, task[t].project_id)
               IN db_projects' =
                      IF n = 0 THEN db_projects
                      ELSE [db_projects EXCEPT ![n].status = "completed"]
            /\ Done(t, "True")
    /\ UNCHANGED db_file_info
    /\ UNCHANGED race_others

JobRaceNext ==
    \/ \E t \in Tasks, p \in Projects : JobLookup(t, p)
    \/ \E t \in Tasks, content \in Contents, outcome \in BackendOutcomes :
          JobIterate(t, content, outcome)
    \/ \E t \in Tasks, fault \in BOOLEAN : JobSaveFiles(t, fault)
    \/ \E t \in Tasks, fault \in BOOLEAN : JobSaveStatus(t, fault)

JobRaceSpec == JobRaceInit /\ [][JobRaceNext]_race_vars

\* C26: beside a job run for another project, a run that returned True has
\* left its in-memory file list in its project's file_info document and its
\* project's status, if the Project exists, at completed, which is what it
\* leaves when it runs alone; and no step of a job run changes, adds or
\* removes a document of a project other than its own.
C26_JobsIndependent ==
    /\ [](\A t, u \in Tasks :
             (/\ task[t].op = "job"
              /\ task[u].op = "job"
              /\ task[t].project_id # task[u].project_id
              /\ task[t].pc = "done"
              /\ task[t].result = "True")
                 => LET n == FindOne(db_file_info, task[t].project_id)
                        k == FindOne(db_projects, task[t].project_id)
                    IN /\ n # 0
                       /\ db_file_info[n].files = task[t].files
                       /\ k # 0 => db_projects[k].status = "completed")
    /\ [][\A t \in Tasks :
             (task'[t] # task[t] /\ task'[t].op = "job")
                 => /\ Len(db_file_info') = Len(db_file_info)
                    /\ Len(db_projects') = Len(db_projects)
                    /\ \A n \in 1..Len(db_file_info) :
                           db_file_info[n].project_id # task'[t].project_id
                               => db_file_info'[n] = db_file_info[n]
                    /\ \A n \in 1..Len(db_projects) :
                           db_projects[n].project_id # task'[t].project_id
                               => db_projects'[n] = db_projects[n]]_race_vars

\* C26 witness: two job runs for different projects have both returned True,
\* each with an analysis result for its first file.
C26_Witness ==
    /\ \A t \in Tasks : /\ task[t].op = "job"
                        /\ task[t].pc = "done"
                        /\ task[t].result = "True"
                        /\ task[t].files[1].analysis_result.kind # "none"
    /\ task[1].project_id # task[2].project_id

\* C28 (as claimed): when two job runs for one project have both returned
\* True, every file for which either run obtained an analysis result has an
\* analysis result in the store; and no write-back of a file list puts a
\* file without analysis result in the place of a stored one that has it.
C28_NoResultLost ==
    /\ [](\A t, u \in Tasks :
             (/\ t # u
              /\ task[t].op = "job"
              /\ task[u].op = "job"
              /\ task[t].project_id = task[u].project_id
              /\ task[t].pc = "done" /\ task[t].result = "True"
              /\ task[u].pc = "done" /\ task[u].result = "True")
                 => LET stored == db_file_info[FindOne(db_file_info,
                                                       task[t].project_id)].files
                    IN \A j \in 1..Len(task[t].files) :
                           task[t].files[j].analysis_result.kind # "none"
                               => stored[j].analysis_result.kind # "none")
    /\ [][\A n \in 1..Len(db_file_info) :
             \A j \in 1..Len(db_file_info[n].files) :
                 db_file_info[n].files[j].analysis_result.kind # "none"
                     => /\ j <= Len(db_file_info'[n].files)
                        /\ db_file_info'[n].files[j].analysis_result.kind # "none"]_race_vars

(***************************************************************************)
(* Concurrent upload_file requests and job runs                            *)
(***************************************************************************)

\* The file names of one upload_file request, in order.
NameLists == UNION {[1..n -> 1..MaxFiles] : n \in 1..MaxFiles}

\* find_one({"user_id": u, "project_id": p}) on file_info.
FindFileInfo(coll, u, p) ==
    LET at == {n \in 1..Len(coll) : coll[n].user_id = u /\ coll[n].project_id = p}
    IN IF at = {} THEN 0 ELSE CHOOSE n \in at : \A k \in at : n <= k

\* upload_file up to its first await: FileInfo.find_one by user_id and
\* project_id, read through the web application's model, or a new FileInfo
\* with no files.
UploadFind(t, p, names) ==
    /\ task[t].pc = "idle"
    /\ LET n == FindFileInfo(db_file_info, TestUser, p)
       IN task' = [task EXCEPT ![t] =
                      [NoTask EXCEPT !.op = "upload_file",
                                     !.pc = "save",
                                     !.project_id = p,
                                     !.names = names,
                                     !.found = n,
                                     !.files = IF n = 0 THEN <<>>
                                               ELSE AsWebModel(db_file_info[n].files)]]
    /\ UNCHANGED <<db_projects, db_file_info>>
    /\ UNCHANGED race_others

\* The rest of upload_file: the loop of puts and appends, then
\* file_info.save(), which inserts the new FileInfo or writes the in-memory
\* fields to the document found. uploaded_files lists the names whose put
\* returned a URL.
UploadSave(t, puts) ==
    /\ task[t].op = "upload_file"
    /\ task[t].pc = "save"
    /\ LET names == task[t].names
           details == [n \in 1..Len(names) |-> [file_name |-> names[n], contents |-> "a"]]
           r == UploadLoop(details, puts, task[t].files, [k \in 1..MaxFiles |-> None])
       IN /\ Len(r.files) <= MaxFiles
          /\ db_file_info' =
                 IF task[t].found = 0
                 THEN Append(db_file_info, RaceDoc(task[t].project_id, FALSE, r.files))
                 ELSE [db_file_info EXCEPT ![task[t].found].files = r.files,
                                           ![task[t].found].full = FALSE]
          /\ task' = [task EXCEPT
                         ![t].pc = "done",
                         ![t].files = r.files,
                         ![t].uploaded =
                             [n \in 1..(Len(r.files) - Len(task[t].files)) |->
                                 r.files[Len(task[t].files) + n].s3_key],
                         ![t].result = "success"]
    /\ UNCHANGED db_projects
    /\ UNCHANGED race_others

UploadRaceNext ==
    \/ \E t \in Tasks, p \in Projects, names \in NameLists : UploadFind(t, p, names)
    \/ \E t \in Tasks : \E puts \in [1..Len(task[t].names) -> BOOLEAN] : UploadSave(t, puts)
    \/ \E t \in Tasks, p \in Projects : JobLookup(t, p)
    \/ \E t \in Tasks, content \in Contents, outcome \in BackendOutcomes :
          JobIterate(t, content, outcome)
    \/ \E t \in Tasks, fault \in BOOLEAN : JobSaveFiles(t, fault)
    \/ \E t \in Tasks, fault \in BOOLEAN : JobSaveStatus(t, fault)

UploadRaceSpec == JobRaceInit /\ [][UploadRaceNext]_race_vars

\* The s3_keys on the file records of a file_info document.
KeysOf(doc) == {doc.files[j].s3_key : j \in 1..Len(doc.files)}

\* C29 (as claimed): no step of a job run takes a file record out of a
\* file_info document: every s3_key a document lists before the step it lists
\* after it, also when upload_file added the record after the run loaded.
C29_JobKeepsFiles ==
    [][\A t \in Tasks :
          (task'[t] # task[t] /\ task'[t].op = "job")
              => /\ Len(db_file_info') >= Len(db_file_info)
                 /\ \A n \in 1..Len(db_file_info) :
                        KeysOf(db_file_info[n]) \subseteq KeysOf(db_file_info'[n])]_race_vars

\* C30 (as claimed): when two upload_file calls for one project have both
\* returned, the collection holds exactly one file_info document for the
\* user and project, and it lists every file either response lists.
C30_NoUploadLost ==
    \A t, u \in Tasks :
        (/\ t # u
         /\ task[t].op = "upload_file" /\ task[t].pc = "done"
         /\ task[u].op = "upload_file" /\ task[u].pc = "done"
         /\ task[t].project_id = task[u].project_id)
            => LET mine == {n \in 1..Len(db_file_info) :
                               /\ db_file_info[n].user_id = TestUser
                               /\ db_file_info[n].project_id = task[t].project_id}
               IN /\ Cardinality(mine) = 1
                  /\ \A n \in mine :
                         {task[t].uploaded[k] : k \in 1..Len(task[t].uploaded)}
                             \subseteq KeysOf(db_file_info[n])

(***************************************************************************)
(* update_file_description                                                 *)
(***************************************************************************)

\* The file lists a job run leaves in a document: only a PDF can have an
\* analysis result (send_to_gemini returns None for every other file).
StoredLists(n) ==
    {[j \in 1..n |-> [UploadedFile(j, pdfs[j]) EXCEPT
                         !.analysis_result = IF pdfs[j] /\ done[j]
                                             THEN Parsed("json") ELSE NoAnalysis]] :
        pdfs \in [1..n -> BOOLEAN], done \in [1..n -> BOOLEAN]}

\* The documents update_file_description may find.
StoredDocs ==
    {NoDoc, FileInfoDoc(TRUE, <<>>)}
        \cup {FileInfoDoc(TRUE, fs) : fs \in UNION {StoredLists(n) : n \in 1..MaxFiles}}

\* What an UpdateFileDescriptionInput may carry: the s3_key of a file, or one
\* no file has, a description and a category.
UpdateInputs ==
    [s3_key : 1..(MaxFiles + 1), file_description : {"", "d"},
     document_category : {"other", "drawing"}]

DescribeInit ==
    /\ RaceOthersIdle
    /\ \E f \in [Projects -> StoredDocs] :
           /\ f["p2"] \in OtherDocs
           /\ db_file_info = FileInfoColl(f)
    /\ db_projects = <<>>
    /\ task = [t \in Tasks |-> NoTask]

\* update_file_description: find_one by user_id and project_id, read through
\* the web application's model; the first file with the s3_key gets the
\* description and the category; save() writes the in-memory document.
\* Without a document or without such a file the status is "error" and
\* nothing is saved.
UpdateFileDescription(t, p, input) ==
    /\ task[t].pc \in {"idle", "done"}
    /\ LET n == FindFileInfo(db_file_info, TestUser, p)
           fs == IF n = 0 THEN <<>> ELSE AsWebModel(db_file_info[n].files)
           at == {j \in 1..Len(fs) : fs[j].s3_key = input.s3_key}
           call == [NoTask EXCEPT !.op = "update_file_description",
                                  !.pc = "done",
                                  !.project_id = p,
                                  !.found = n,
                                  !.update_input = input]
       IN IF at = {}
          THEN /\ task' = [task EXCEPT ![t] = [call EXCEPT !.result = "error"]]
               /\ UNCHANGED db_file_info
          ELSE LET j == CHOOSE k \in at : \A h \in at : k <= h
                   updated == [fs EXCEPT
                                  ![j].file_description = input.file_description,
                                  ![j].document_category = input.document_category]
               IN /\ db_file_info' = [db_file_info EXCEPT ![n].files = updated,
                                                          ![n].full = FALSE]
                  /\ task' = [task EXCEPT ![t] = [call EXCEPT !.result = "success"]]
    /\ UNCHANGED db_projects
    /\ UNCHANGED race_others

\* The calls come one after the other.
DescribeNext ==
    \E p \in Projects, input \in UpdateInputs : UpdateFileDescription(1, p, input)

DescribeSpec == DescribeInit /\ [][DescribeNext]_race_vars

\* C27 (as claimed): a call of update_file_description that returns success
\* leaves every document and every file as it was, except file_description
\* and document_category of the first file with the given s3_key; a call
\* that returns error leaves the collection as it was.
C27_DescriptionOnly ==
    [][\A t \in Tasks :
          (task'[t] # task[t] /\ task'[t].op = "update_file_description")
              => IF task'[t].result = "error"
                 THEN db_file_info' = db_file_info
                 ELSE LET n == task'[t].found
                          old == db_file_info[n].files
                          key == task'[t].update_input.s3_key
                          j == CHOOSE k \in 1..Len(old) :
                                   /\ old[k].s3_key = key
                                   /\ \A h \in 1..(k - 1) : old[h].s3_key # key
                      IN /\ Len(db_file_info') = Len(db_file_info)
                         /\ \A k \in 1..Len(db_file_info) :
                                k # n => db_file_info'[k] = db_file_info[k]
                         /\ db_file_info'[n].files =
                                [old EXCEPT
                                    ![j].file_description =
                                        task'[t].update_input.file_description,
                                    ![j].document_category =
                                        task'[t].update_input.document_category]]_race_vars

====
